---- MODULE Spec2Model ----
(***************************************************************************)
(* Jamming / anti-jamming simulators: the simulation, detection and        *)
(* mitigation engines of the three programs of the repository.             *)
(*                                                                         *)
(*   jw_*  JammerWithPreventionSimulator   (src/jmch.py)                   *)
(*   fj_*  FixedJammerSimulator            (src/jammer.py)                 *)
(*   aj_*  AdvancedJammerSimulator         (src/jammer+prevention.py)      *)
(*                                                                         *)
(* Each program is a Tk main thread (the handlers of the widgets) and      *)
(* background worker threads; the threads interleave statement by          *)
(* statement.  Widgets, plots and console text are not modelled, except    *)
(* the result label of check_for_jamming.                                  *)
(*                                                                         *)
(* Units: jmch.py and jammer.py count time in tenths of a second and       *)
(* probabilities in hundredths.  A success rate 100*sent/total is kept as  *)
(* the exact fraction <<100*sent, total>>.                                 *)
(***************************************************************************)
EXTENDS Integers, Sequences, FiniteSets, TLC

(* ------------------------------ bounds -------------------------------- *)

\* ticks a worker of jmch.py may begin after the initial state
MaxTicksJ == 3
\* ticks the worker of jammer.py may begin after the initial state
MaxTicksF == 3
\* ticks the workers of jammer+prevention.py may begin after the initial state
MaxTicksA == 2
\* worker threads jammer+prevention.py may start after the initial state
MaxWorkers == 2
\* widget handlers the main thread of jammer+prevention.py may run
MaxCmdsA == 2

(* ------------------------- program constants -------------------------- *)

success_rate_threshold == 70
check_interval == 10
HistoryCapacity == 100

\* jmch.py:166, jammer+prevention.py:228
available_channels == 1..11

\* jmch.py:19 and the slider's range, jmch.py:50 (hundredths)
JwInitialStrength == 30
JwSliderValues == {10, 90}

\* random.uniform(0.2, 0.5), jmch.py:106 (tenths of a second)
JwDelays == {2, 5}

\* random.random(), a value of [0,1) (hundredths)
Draws == {5, 50, 95}

\* the keys of self.simulation_params, jammer.py:25-31
FjModes == {"None", "Noise", "Repeater", "Tone", "Pulsed"}
\* FjBlockProb with a block probability of 0.1 for "None"
FjBlockProbLeaky(mode) ==
    CASE mode = "None" -> 10
      [] mode = "Noise" -> 60
      [] mode = "Repeater" -> 40
      [] mode = "Tone" -> 70
      [] mode = "Pulsed" -> 50

\* self.simulation_params[mode]["block_prob"], jammer.py:25-31 (hundredths)
FjBlockProb(mode) ==
    CASE mode = "None" -> 0
      [] mode = "Noise" -> 60
      [] mode = "Repeater" -> 40
      [] mode = "Tone" -> 70
      [] mode = "Pulsed" -> 50

\* self.time_counter += 0.4, jammer.py:166 (tenths of a second)
FjTickTime == 4

\* jammer+prevention.py: strength in thousandths, time in tenths of a second,
\* power in millionths, success rate in whole percent (rounded down)
AjInitialStrength == 5000
AjSliderMin == 0
AjSliderMax == 10000
AjSliderValues == {AjSliderMin, 350, AjSliderMax}
AjTypes == {"Noise", "Tone", "Pulsed", "Sweep"}
\* the type selector is an editable Combobox: any text can be typed into it
AjTypeInputs == AjTypes \cup {"Barrage"}
AjMethods == {"Channel Hopping", "Spread Spectrum", "Adaptive Filter"}
AjFrequencies == {40, 45, 50, 55, 60}
AjSleepTime == 5
\* the threshold line of the success-rate plot, jammer+prevention.py:126
AjThreshold == 70
\* np.mean(signal ** 2) of the unit sine, and the 1e-6 of the SNR denominator
SignalPower == 500000
Epsilon == 1
\* np.mean(np.random.randn(n) ** 2), in thousandths
NoiseFactors == {900, 1100}

Programs == {"jmch", "jammer", "jammer+prevention"}

(* ------------------------------ state --------------------------------- *)

VARIABLES
    program,              \* the program that was launched: one of Programs
    \* JammerWithPreventionSimulator
    jw_pc,                \* position of the simulate_packets thread
    jw_running,
    jw_jammer_active,
    jw_jammer_strength,
    jw_sent,
    jw_blocked,
    jw_channel,
    jw_lock,              \* "free" or the thread that holds self.lock
    jw_time_counter,
    jw_time_data,
    jw_success_rate_data,
    jw_result_label,      \* text of result_label: "", "Jamming Detected", "Network Stable"
    jw_is_blocked,        \* local of simulate_packets
    jw_delay,             \* local of simulate_packets
    jw_closed,            \* on_closing has destroyed the window
    jw_ticks,             \* ticks begun since the initial state (bounded by MaxTicksJ)
    jw_eval_channel,      \* history: channel when the current evaluation began
    jw_hops,              \* history: calls of prevention_action in the current evaluation
    jw_stop_seen,         \* history: stop was requested while the worker was alive
    jw_ever_active,       \* history: jammer_active has been True at some moment
    jw_eval_rate          \* local success_rate of check_for_jamming

varsJ == <<jw_pc, jw_running, jw_jammer_active, jw_jammer_strength, jw_sent,
           jw_blocked, jw_channel, jw_lock, jw_time_counter, jw_time_data,
           jw_success_rate_data, jw_result_label, jw_is_blocked, jw_delay,
           jw_closed, jw_ticks, jw_eval_channel, jw_hops, jw_stop_seen,
           jw_ever_active, jw_eval_rate>>

VARIABLES
    \* FixedJammerSimulator
    fj_pc,                \* position of the simulate thread
    fj_running,
    fj_jamming_mode,      \* the StringVar behind the read-only mode selector
    fj_sent,
    fj_blocked,
    fj_time_counter,
    fj_lock,
    fj_has_data,          \* hasattr(self, 'success_data')
    fj_success_data,
    fj_time_data,
    fj_status_label,      \* the mode the status label shows
    fj_mode,              \* local of simulate
    fj_is_blocked,        \* local `blocked` of simulate
    fj_closed,
    fj_ticks,             \* ticks begun since the initial state (bounded by MaxTicksF)
    fj_ever_jamming,      \* history: a mode other than "None" has been selected
    fj_failed             \* history: an exception has left the loop of simulate

varsF == <<fj_pc, fj_running, fj_jamming_mode, fj_sent, fj_blocked, fj_time_counter,
           fj_lock, fj_has_data, fj_success_data, fj_time_data, fj_status_label,
           fj_mode, fj_is_blocked, fj_closed, fj_ticks, fj_ever_jamming, fj_failed>>

VARIABLES
    \* AdvancedJammerSimulator
    aj_running,
    aj_lock,              \* <<"free">> or the Thread(w) that holds self.lock
    aj_success_times,
    aj_success_rates,
    aj_start_time,
    aj_channel,
    aj_fc,
    aj_jammer_strength,
    aj_jammer_type,       \* jammer_type_var
    aj_prev_method,       \* prev_method_var
    aj_now,               \* time.time()
    aj_main,              \* position of the main thread: "idle" or inside start_simulation
    aj_pc,                \* position of each _run_simulation thread
    aj_local,             \* locals of each _run_simulation thread, with the history
                          \* of its tick: mode (the jammer type read by the branch
                          \* test that chose the waveform), modes (the jammer types
                          \* selected since the tick began), applies (aj_applies
                          \* when the success rate was computed)
    aj_ticks,             \* ticks begun since the initial state (bounded by MaxTicksA)
    aj_cmds,              \* handlers run since the initial state (bounded by MaxCmdsA)
    aj_old_channel,       \* history: channel before the last channel hop, 0 if none
    aj_stop_seen,         \* history: workers that were alive at a stop request
    aj_applies,           \* history: calls of apply_prevention
    aj_decays,            \* history: adaptive-filter actions since __init__, or
                          \*          NoDecays once a slider command has intervened
    aj_failed             \* history: workers whose loop an exception has left

ajConfig == <<aj_channel, aj_fc, aj_jammer_strength, aj_jammer_type, aj_prev_method,
              aj_old_channel>>
ajHistory == <<aj_success_times, aj_success_rates>>
ajControl == <<aj_running, aj_start_time, aj_main, aj_cmds, aj_stop_seen>>
ajGhost == <<aj_applies, aj_decays, aj_failed>>

varsA == <<ajConfig, ajHistory, ajControl, aj_lock, aj_now, aj_pc, aj_local, aj_ticks,
           ajGhost>>

vars == <<program, varsJ, varsF, varsA>>

(* ----------------------------- helpers -------------------------------- *)

\* Rate with the blocked packets in the numerator
RateOfBlocked(sent, total) == <<100 * (total - sent), total>>

\* 100 * sent / total, as the fraction <<numerator, denominator>>
Rate(sent, total) == <<100 * sent, total>>

\* rate < threshold on fractions
RateBelow(rate, threshold) == rate[1] < threshold * rate[2]

\* success_rate = 100 * self.sent / total if total > 0 else 100   (jmch.py:145-146)
JwSuccessRate(sent, blocked) ==
    IF sent + blocked > 0 THEN Rate(sent, sent + blocked) ELSE <<100, 1>>

\* JwHopCandidates without the exclusion of the current channel
JwHopCandidatesAny(ch) == available_channels

\* [ch for ch in available_channels if ch != self.channel]   (jmch.py:167)
JwHopCandidates(ch) == {c \in available_channels : c # ch}

\* random.random() < self.jammer_strength
DrawBelow(draw, strength) == draw < strength

(* ------------------- JammerWithPreventionSimulator -------------------- *)

\* the local success_rate of check_for_jamming before its first call
JwNoRate == <<0, 0>>

\* __init__ and setup_graph: the state when the worker thread is started
JwConstructed ==
    /\ jw_pc = "loop"
    /\ jw_running = TRUE
    /\ jw_jammer_active = FALSE
    /\ jw_jammer_strength = JwInitialStrength
    /\ jw_sent = 0
    /\ jw_blocked = 0
    /\ jw_channel = 1
    /\ jw_lock = "free"
    /\ jw_time_counter = 0
    /\ jw_time_data = <<>>
    /\ jw_success_rate_data = <<>>
    /\ jw_result_label = ""
    /\ jw_is_blocked = FALSE
    /\ jw_delay = 0
    /\ jw_closed = FALSE
    /\ jw_ticks = 0
    /\ jw_eval_channel = 1
    /\ jw_hops = 0
    /\ jw_stop_seen = FALSE
    /\ jw_ever_active = FALSE
    /\ jw_eval_rate = JwNoRate

\* A quiet run: JwQuietRunLen packets with the shortest delay, the jammer never
\* switched on; the next packet completes the first window of check_interval.
JwQuietRunLen == check_interval - 1
JwQuietRun ==
    /\ jw_pc = "loop"
    /\ jw_running = TRUE
    /\ jw_jammer_active = FALSE
    /\ jw_jammer_strength = JwInitialStrength
    /\ jw_sent = JwQuietRunLen
    /\ jw_blocked = 0
    /\ jw_channel = 1
    /\ jw_lock = "free"
    /\ jw_time_counter = 2 * JwQuietRunLen
    /\ jw_time_data = [i \in 1..JwQuietRunLen |-> 2 * i]
    /\ jw_success_rate_data = [i \in 1..JwQuietRunLen |-> JwSuccessRate(i, 0)]
    /\ jw_result_label = ""
    /\ jw_is_blocked = FALSE
    /\ jw_delay = 2
    /\ jw_closed = FALSE
    /\ jw_ticks = 0
    /\ jw_eval_channel = 1
    /\ jw_hops = 0
    /\ jw_stop_seen = FALSE
    /\ jw_ever_active = FALSE
    /\ jw_eval_rate = JwNoRate

\* A long run: JwLongRunLen packets with the shortest delay; the jammer is off
\* for the first nine windows of check_interval packets (nine evaluations, all
\* Network Stable), is then toggled on, and the tenth window so far holds two
\* blocked packets followed by six sent ones.
JwLongRunLen == HistoryCapacity - 2
JwLongRunQuiet == JwLongRunLen - 8
JwLongRunRate(i) ==
    IF i <= JwLongRunQuiet
    THEN LET k == ((i - 1) % check_interval) + 1 IN JwSuccessRate(k, 0)
    ELSE LET k == i - JwLongRunQuiet IN
         IF k <= 2 THEN JwSuccessRate(0, k) ELSE JwSuccessRate(k - 2, 2)
JwLongRun ==
    /\ jw_pc = "loop"
    /\ jw_running = TRUE
    /\ jw_jammer_active = TRUE
    /\ jw_jammer_strength = JwInitialStrength
    /\ jw_sent = 6
    /\ jw_blocked = 2
    /\ jw_channel = 1
    /\ jw_lock = "free"
    /\ jw_time_counter = 2 * JwLongRunLen
    /\ jw_time_data = [i \in 1..JwLongRunLen |-> 2 * i]
    /\ jw_success_rate_data = [i \in 1..JwLongRunLen |-> JwLongRunRate(i)]
    /\ jw_result_label = "Network Stable"
    /\ jw_is_blocked = FALSE
    /\ jw_delay = 2
    /\ jw_closed = FALSE
    /\ jw_ticks = 0
    /\ jw_eval_channel = 1
    /\ jw_hops = 0
    /\ jw_stop_seen = FALSE
    /\ jw_ever_active = TRUE
    /\ jw_eval_rate = JwSuccessRate(check_interval, 0)

JwInit == JwConstructed \/ JwQuietRun \/ JwLongRun

\* while self.running:   (jmch.py:104)
simulate_packets_test ==
    /\ jw_pc = "loop"
    /\ IF jw_running
       THEN /\ jw_ticks < MaxTicksJ
            /\ jw_ticks' = jw_ticks + 1
            /\ jw_pc' = "draw"
       ELSE /\ jw_pc' = "done"
            /\ UNCHANGED jw_ticks
    /\ UNCHANGED <<jw_running, jw_jammer_active, jw_jammer_strength, jw_sent,
                   jw_blocked, jw_channel, jw_lock, jw_time_counter, jw_time_data,
                   jw_success_rate_data, jw_result_label, jw_is_blocked, jw_delay,
                   jw_closed, jw_eval_channel, jw_hops, jw_stop_seen,
                   jw_ever_active, jw_eval_rate>>

\* delay = random.uniform(0.2, 0.5)
\* is_blocked = self.jammer_active and random.random() < self.jammer_strength
\* (jmch.py:105-109)
simulate_packets_draw ==
    /\ jw_pc = "draw"
    /\ \E d \in JwDelays, u \in Draws :
          /\ jw_delay' = d
          /\ jw_is_blocked' = (jw_jammer_active /\ DrawBelow(u, jw_jammer_strength))
    /\ jw_pc' = "acquire"
    /\ UNCHANGED <<jw_running, jw_jammer_active, jw_jammer_strength, jw_sent,
                   jw_blocked, jw_channel, jw_lock, jw_time_counter, jw_time_data,
                   jw_success_rate_data, jw_result_label, jw_closed, jw_ticks,
                   jw_eval_channel, jw_hops, jw_stop_seen,
                   jw_ever_active, jw_eval_rate>>

\* with self.lock:   (jmch.py:111)
simulate_packets_acquire ==
    /\ jw_pc = "acquire"
    /\ jw_lock = "free"
    /\ jw_lock' = "worker"
    /\ jw_pc' = "count"
    /\ UNCHANGED <<jw_running, jw_jammer_active, jw_jammer_strength, jw_sent,
                   jw_blocked, jw_channel, jw_time_counter, jw_time_data,
                   jw_success_rate_data, jw_result_label, jw_is_blocked, jw_delay,
                   jw_closed, jw_ticks, jw_eval_channel, jw_hops, jw_stop_seen,
                   jw_ever_active, jw_eval_rate>>

\* self.blocked += 1 or self.sent += 1   (jmch.py:112-121)
simulate_packets_count ==
    /\ jw_pc = "count"
    /\ IF jw_is_blocked
       THEN jw_blocked' = jw_blocked + 1 /\ UNCHANGED jw_sent
       ELSE jw_sent' = jw_sent + 1 /\ UNCHANGED jw_blocked
    /\ jw_pc' = "release"
    /\ UNCHANGED <<jw_running, jw_jammer_active, jw_jammer_strength, jw_channel,
                   jw_lock, jw_time_counter, jw_time_data, jw_success_rate_data,
                   jw_result_label, jw_is_blocked, jw_delay, jw_closed, jw_ticks,
                   jw_eval_channel, jw_hops, jw_stop_seen,
                   jw_ever_active, jw_eval_rate>>

\* the end of the with block   (jmch.py:121)
simulate_packets_release ==
    /\ jw_pc = "release"
    /\ jw_lock' = "free"
    /\ jw_pc' = "sleep"
    /\ UNCHANGED <<jw_running, jw_jammer_active, jw_jammer_strength, jw_sent,
                   jw_blocked, jw_channel, jw_time_counter, jw_time_data,
                   jw_success_rate_data, jw_result_label, jw_is_blocked, jw_delay,
                   jw_closed, jw_ticks, jw_eval_channel, jw_hops, jw_stop_seen,
                   jw_ever_active, jw_eval_rate>>

\* time.sleep(delay); self.time_counter += delay   (jmch.py:123-124)
simulate_packets_sleep ==
    /\ jw_pc = "sleep"
    /\ jw_time_counter' = jw_time_counter + jw_delay
    /\ jw_pc' = "graph"
    /\ UNCHANGED <<jw_running, jw_jammer_active, jw_jammer_strength, jw_sent,
                   jw_blocked, jw_channel, jw_lock, jw_time_data,
                   jw_success_rate_data, jw_result_label, jw_is_blocked, jw_delay,
                   jw_closed, jw_ticks, jw_eval_channel, jw_hops, jw_stop_seen,
                   jw_ever_active, jw_eval_rate>>

\* update_graph   (jmch.py:125, 131-141)
update_graph ==
    /\ jw_pc = "graph"
    /\ LET total == jw_sent + jw_blocked IN
       IF total > 0
       THEN /\ jw_success_rate_data' = Append(jw_success_rate_data, Rate(jw_sent, total))
            /\ jw_time_data' = Append(jw_time_data, jw_time_counter)
       ELSE UNCHANGED <<jw_success_rate_data, jw_time_data>>
    /\ jw_pc' = "check"
    /\ UNCHANGED <<jw_running, jw_jammer_active, jw_jammer_strength, jw_sent,
                   jw_blocked, jw_channel, jw_lock, jw_time_counter,
                   jw_result_label, jw_is_blocked, jw_delay, jw_closed, jw_ticks,
                   jw_eval_channel, jw_hops, jw_stop_seen,
                   jw_ever_active, jw_eval_rate>>

\* simulate_packets_check with an evaluation after every packet
simulate_packets_check_always ==
    /\ jw_pc = "check"
    /\ jw_pc' = "eval"
    /\ jw_eval_channel' = jw_channel
    /\ jw_hops' = 0
    /\ UNCHANGED <<jw_running, jw_jammer_active, jw_jammer_strength, jw_sent,
                   jw_blocked, jw_channel, jw_lock, jw_time_counter, jw_time_data,
                   jw_success_rate_data, jw_result_label, jw_is_blocked, jw_delay,
                   jw_closed, jw_ticks, jw_stop_seen, jw_ever_active, jw_eval_rate>>

\* if (self.sent + self.blocked) % self.check_interval == 0:   (jmch.py:128)
simulate_packets_check ==
    /\ jw_pc = "check"
    /\ IF (jw_sent + jw_blocked) % check_interval = 0
       THEN /\ jw_pc' = "eval"
            /\ jw_eval_channel' = jw_channel
            /\ jw_hops' = 0
       ELSE /\ jw_pc' = "loop"
            /\ UNCHANGED <<jw_eval_channel, jw_hops>>
    /\ UNCHANGED <<jw_running, jw_jammer_active, jw_jammer_strength, jw_sent,
                   jw_blocked, jw_channel, jw_lock, jw_time_counter, jw_time_data,
                   jw_success_rate_data, jw_result_label, jw_is_blocked, jw_delay,
                   jw_closed, jw_ticks, jw_stop_seen,
                   jw_ever_active, jw_eval_rate>>

\* JwJammingDetected with <= in place of < (a rate equal to the threshold counts as jammed)
JwJammingDetectedAtThreshold(sent, blocked) ==
    LET rate == JwSuccessRate(sent, blocked) IN rate[1] <= success_rate_threshold * rate[2]

\* if success_rate < self.success_rate_threshold:   (jmch.py:148)
JwJammingDetected(sent, blocked) ==
    RateBelow(JwSuccessRate(sent, blocked), success_rate_threshold)

\* check_for_jamming up to the reset of the counters   (jmch.py:143-158)
check_for_jamming ==
    /\ jw_pc = "eval"
    /\ jw_eval_rate' = JwSuccessRate(jw_sent, jw_blocked)
    /\ IF JwJammingDetected(jw_sent, jw_blocked)
       THEN /\ jw_result_label' = "Jamming Detected"
            /\ jw_pc' = "hop"
       ELSE /\ jw_result_label' = "Network Stable"
            /\ jw_pc' = "reset"
    /\ UNCHANGED <<jw_running, jw_jammer_active, jw_jammer_strength, jw_sent,
                   jw_blocked, jw_channel, jw_lock, jw_time_counter, jw_time_data,
                   jw_success_rate_data, jw_is_blocked, jw_delay, jw_closed,
                   jw_ticks, jw_eval_channel, jw_hops, jw_stop_seen,
                   jw_ever_active>>

\* new_channel = random.choice([...]); self.channel = new_channel   (jmch.py:164-168)
prevention_action ==
    /\ jw_pc = "hop"
    /\ \E new_channel \in JwHopCandidates(jw_channel) : jw_channel' = new_channel
    /\ jw_hops' = jw_hops + 1
    /\ jw_pc' = "hop_acquire"
    /\ UNCHANGED <<jw_running, jw_jammer_active, jw_jammer_strength, jw_sent,
                   jw_blocked, jw_lock, jw_time_counter, jw_time_data,
                   jw_success_rate_data, jw_result_label, jw_is_blocked, jw_delay,
                   jw_closed, jw_ticks, jw_eval_channel, jw_stop_seen,
                   jw_ever_active, jw_eval_rate>>

\* with self.lock:   (jmch.py:170)
prevention_action_acquire ==
    /\ jw_pc = "hop_acquire"
    /\ jw_lock = "free"
    /\ jw_lock' = "worker"
    /\ jw_pc' = "hop_release"
    /\ UNCHANGED <<jw_running, jw_jammer_active, jw_jammer_strength, jw_sent,
                   jw_blocked, jw_channel, jw_time_counter, jw_time_data,
                   jw_success_rate_data, jw_result_label, jw_is_blocked, jw_delay,
                   jw_closed, jw_ticks, jw_eval_channel, jw_hops, jw_stop_seen,
                   jw_ever_active, jw_eval_rate>>

\* the log line and the end of the with block; time.sleep(1.5)   (jmch.py:171-183)
prevention_action_release ==
    /\ jw_pc = "hop_release"
    /\ jw_lock' = "free"
    /\ jw_pc' = "reset"
    /\ UNCHANGED <<jw_running, jw_jammer_active, jw_jammer_strength, jw_sent,
                   jw_blocked, jw_channel, jw_time_counter, jw_time_data,
                   jw_success_rate_data, jw_result_label, jw_is_blocked, jw_delay,
                   jw_closed, jw_ticks, jw_eval_channel, jw_hops, jw_stop_seen,
                   jw_ever_active, jw_eval_rate>>

\* check_for_jamming_reset with only self.sent cleared
check_for_jamming_reset_sent_only ==
    /\ jw_pc = "reset"
    /\ jw_sent' = 0
    /\ jw_pc' = "loop"
    /\ UNCHANGED <<jw_running, jw_jammer_active, jw_jammer_strength, jw_blocked,
                   jw_channel, jw_lock, jw_time_counter, jw_time_data,
                   jw_success_rate_data, jw_result_label, jw_is_blocked, jw_delay,
                   jw_closed, jw_ticks, jw_eval_channel, jw_hops, jw_stop_seen,
                   jw_ever_active, jw_eval_rate>>

\* self.sent = 0; self.blocked = 0   (jmch.py:160-162)
check_for_jamming_reset ==
    /\ jw_pc = "reset"
    /\ jw_sent' = 0
    /\ jw_blocked' = 0
    /\ jw_pc' = "loop"
    /\ UNCHANGED <<jw_running, jw_jammer_active, jw_jammer_strength, jw_channel,
                   jw_lock, jw_time_counter, jw_time_data, jw_success_rate_data,
                   jw_result_label, jw_is_blocked, jw_delay, jw_closed, jw_ticks,
                   jw_eval_channel, jw_hops, jw_stop_seen,
                   jw_ever_active, jw_eval_rate>>

\* toggle_jammer, the handler of the Toggle Jammer button   (jmch.py:94-100)
toggle_jammer ==
    /\ ~jw_closed
    /\ jw_jammer_active' = ~jw_jammer_active
    /\ jw_ever_active' = (jw_ever_active \/ jw_jammer_active')
    /\ UNCHANGED <<jw_pc, jw_running, jw_jammer_strength, jw_sent, jw_blocked,
                   jw_channel, jw_lock, jw_time_counter, jw_time_data,
                   jw_success_rate_data, jw_result_label, jw_is_blocked, jw_delay,
                   jw_closed, jw_ticks, jw_eval_channel, jw_hops, jw_stop_seen,
                   jw_eval_rate>>

\* the slider's command: setattr(self, 'jammer_strength', float(v))   (jmch.py:49-52)
jw_strength_slider ==
    /\ ~jw_closed
    /\ \E v \in JwSliderValues : jw_jammer_strength' = v
    /\ UNCHANGED <<jw_pc, jw_running, jw_jammer_active, jw_sent, jw_blocked,
                   jw_channel, jw_lock, jw_time_counter, jw_time_data,
                   jw_success_rate_data, jw_result_label, jw_is_blocked, jw_delay,
                   jw_closed, jw_ticks, jw_eval_channel, jw_hops, jw_stop_seen,
                   jw_ever_active, jw_eval_rate>>

\* on_closing: self.running = False; self.root.destroy()   (jmch.py:185-188)
jw_on_closing ==
    /\ ~jw_closed
    /\ jw_running' = FALSE
    /\ jw_closed' = TRUE
    /\ jw_stop_seen' = (jw_pc # "done")
    /\ UNCHANGED <<jw_pc, jw_jammer_active, jw_jammer_strength, jw_sent, jw_blocked,
                   jw_channel, jw_lock, jw_time_counter, jw_time_data,
                   jw_success_rate_data, jw_result_label, jw_is_blocked, jw_delay,
                   jw_ticks, jw_eval_channel, jw_hops,
                   jw_ever_active, jw_eval_rate>>

NextJ ==
    \/ simulate_packets_test
    \/ simulate_packets_draw
    \/ simulate_packets_acquire
    \/ simulate_packets_count
    \/ simulate_packets_release
    \/ simulate_packets_sleep
    \/ update_graph
    \/ simulate_packets_check
    \/ check_for_jamming
    \/ prevention_action
    \/ prevention_action_acquire
    \/ prevention_action_release
    \/ check_for_jamming_reset
    \/ toggle_jammer
    \/ jw_strength_slider
    \/ jw_on_closing

(* ------------------------ FixedJammerSimulator ------------------------ *)

\* __init__: the state when the worker thread is started   (jammer.py:12-42)
FjConstructed ==
    /\ fj_pc = "loop"
    /\ fj_running = TRUE
    /\ fj_jamming_mode = "None"
    /\ fj_sent = 0
    /\ fj_blocked = 0
    /\ fj_time_counter = 0
    /\ fj_lock = "free"
    /\ fj_has_data = FALSE
    /\ fj_success_data = <<>>
    /\ fj_time_data = <<>>
    /\ fj_status_label = "None"
    /\ fj_mode = "None"
    /\ fj_is_blocked = FALSE
    /\ fj_closed = FALSE
    /\ fj_ticks = 0
    /\ fj_ever_jamming = FALSE
    /\ fj_failed = FALSE

\* A long run: FjLongRunLen ticks in mode "None", every packet sent.
FjLongRunLen == HistoryCapacity - 1
FjLongRun ==
    /\ fj_pc = "loop"
    /\ fj_running = TRUE
    /\ fj_jamming_mode = "None"
    /\ fj_sent = FjLongRunLen
    /\ fj_blocked = 0
    /\ fj_time_counter = FjTickTime * FjLongRunLen
    /\ fj_lock = "free"
    /\ fj_has_data = TRUE
    /\ fj_success_data = [i \in 1..FjLongRunLen |-> Rate(i, i)]
    /\ fj_time_data = [i \in 1..FjLongRunLen |-> FjTickTime * i]
    /\ fj_status_label = "None"
    /\ fj_mode = "None"
    /\ fj_is_blocked = FALSE
    /\ fj_closed = FALSE
    /\ fj_ticks = 0
    /\ fj_ever_jamming = FALSE
    /\ fj_failed = FALSE

FjInit == FjConstructed \/ FjLongRun

\* while self.running:   (jammer.py:139)
simulate_test ==
    /\ fj_pc = "loop"
    /\ IF fj_running
       THEN /\ fj_ticks < MaxTicksF
            /\ fj_ticks' = fj_ticks + 1
            /\ fj_pc' = "read"
       ELSE /\ fj_pc' = "done"
            /\ UNCHANGED fj_ticks
    /\ UNCHANGED <<fj_running, fj_jamming_mode, fj_sent, fj_blocked, fj_time_counter,
                   fj_lock, fj_has_data, fj_success_data, fj_time_data,
                   fj_status_label, fj_mode, fj_is_blocked, fj_closed,
                   fj_ever_jamming, fj_failed>>

\* except Exception as e: print(...); break   (jammer.py:206-208)
\* A call into Tk raises once on_closing has destroyed the window.
simulate_except ==
    /\ fj_pc' = "done"
    /\ fj_failed' = TRUE

\* mode = self.jamming_mode.get(); params = self.simulation_params[mode]
\* blocked = random.random() < params["block_prob"]   (jammer.py:141-146)
simulate_read ==
    /\ fj_pc = "read"
    /\ IF fj_closed
       THEN /\ simulate_except
            /\ UNCHANGED <<fj_mode, fj_is_blocked>>
       ELSE /\ fj_mode' = fj_jamming_mode
            /\ \E u \in Draws :
                  fj_is_blocked' = DrawBelow(u, FjBlockProb(fj_jamming_mode))
            /\ fj_pc' = "acquire"
            /\ UNCHANGED fj_failed
    /\ UNCHANGED <<fj_running, fj_jamming_mode, fj_sent, fj_blocked, fj_time_counter,
                   fj_lock, fj_has_data, fj_success_data, fj_time_data,
                   fj_status_label, fj_closed, fj_ticks, fj_ever_jamming>>

\* with self.lock:   (jammer.py:149)
simulate_acquire ==
    /\ fj_pc = "acquire"
    /\ fj_lock = "free"
    /\ fj_lock' = "worker"
    /\ fj_pc' = "count"
    /\ UNCHANGED <<fj_running, fj_jamming_mode, fj_sent, fj_blocked, fj_time_counter,
                   fj_has_data, fj_success_data, fj_time_data, fj_status_label,
                   fj_mode, fj_is_blocked, fj_closed, fj_ticks,
                   fj_ever_jamming, fj_failed>>

\* self.blocked += 1 or self.sent += 1; self.output_box.insert(...), which
\* raises out of the with block when the window is gone   (jammer.py:150-158)
simulate_count ==
    /\ fj_pc = "count"
    /\ IF fj_is_blocked
       THEN fj_blocked' = fj_blocked + 1 /\ UNCHANGED fj_sent
       ELSE fj_sent' = fj_sent + 1 /\ UNCHANGED fj_blocked
    /\ IF fj_closed
       THEN /\ simulate_except
            /\ fj_lock' = "free"
       ELSE /\ fj_pc' = "release"
            /\ UNCHANGED <<fj_lock, fj_failed>>
    /\ UNCHANGED <<fj_running, fj_jamming_mode, fj_time_counter, fj_has_data,
                   fj_success_data, fj_time_data, fj_status_label, fj_mode,
                   fj_is_blocked, fj_closed, fj_ticks, fj_ever_jamming>>

simulate_release ==
    /\ fj_pc = "release"
    /\ fj_lock' = "free"
    /\ fj_pc' = "update"
    /\ UNCHANGED <<fj_running, fj_jamming_mode, fj_sent, fj_blocked, fj_time_counter,
                   fj_has_data, fj_success_data, fj_time_data, fj_status_label,
                   fj_mode, fj_is_blocked, fj_closed, fj_ticks,
                   fj_ever_jamming, fj_failed>>

\* self.time_counter += 0.4 ... self.time_data.append(self.time_counter)
\* (jammer.py:166-182)
simulate_update ==
    /\ fj_pc = "update"
    /\ fj_time_counter' = fj_time_counter + FjTickTime
    /\ LET total == fj_sent + fj_blocked IN
       IF total > 0
       THEN /\ fj_has_data' = TRUE
            /\ fj_success_data' =
                  Append(IF fj_has_data THEN fj_success_data ELSE <<>>,
                         Rate(fj_sent, total))
            /\ fj_time_data' =
                  Append(IF fj_has_data THEN fj_time_data ELSE <<>>,
                         fj_time_counter')
       ELSE UNCHANGED <<fj_has_data, fj_success_data, fj_time_data>>
    /\ fj_pc' = "status"
    /\ UNCHANGED <<fj_running, fj_jamming_mode, fj_sent, fj_blocked, fj_lock,
                   fj_status_label, fj_mode, fj_is_blocked, fj_closed, fj_ticks,
                   fj_ever_jamming, fj_failed>>

\* icon, text = status_map[mode]; with self.lock: the label and the canvases;
\* time.sleep(0.4)   (jammer.py:190-204)
simulate_status ==
    /\ fj_pc = "status"
    /\ fj_lock = "free"
    /\ IF fj_closed
       THEN /\ simulate_except
            /\ UNCHANGED fj_status_label
       ELSE /\ fj_status_label' = fj_mode
            /\ fj_pc' = "loop"
            /\ UNCHANGED fj_failed
    /\ UNCHANGED <<fj_running, fj_jamming_mode, fj_sent, fj_blocked, fj_time_counter,
                   fj_lock, fj_has_data, fj_success_data, fj_time_data, fj_mode,
                   fj_is_blocked, fj_closed, fj_ticks, fj_ever_jamming>>

\* the user picks a technique in the read-only selector   (jammer.py:80-85)
fj_jamming_selector ==
    /\ ~fj_closed
    /\ \E m \in FjModes : fj_jamming_mode' = m
    /\ fj_ever_jamming' = (fj_ever_jamming \/ fj_jamming_mode' # "None")
    /\ UNCHANGED <<fj_pc, fj_running, fj_sent, fj_blocked, fj_time_counter, fj_lock,
                   fj_has_data, fj_success_data, fj_time_data, fj_status_label,
                   fj_mode, fj_is_blocked, fj_closed, fj_ticks, fj_failed>>

\* on_closing: self.running = False; self.root.destroy()   (jammer.py:210-213)
fj_on_closing ==
    /\ ~fj_closed
    /\ fj_running' = FALSE
    /\ fj_closed' = TRUE
    /\ UNCHANGED <<fj_pc, fj_jamming_mode, fj_sent, fj_blocked, fj_time_counter,
                   fj_lock, fj_has_data, fj_success_data, fj_time_data,
                   fj_status_label, fj_mode, fj_is_blocked, fj_ticks,
                   fj_ever_jamming, fj_failed>>

NextF ==
    \/ simulate_test
    \/ simulate_read
    \/ simulate_acquire
    \/ simulate_count
    \/ simulate_release
    \/ simulate_update
    \/ simulate_status
    \/ fj_jamming_selector
    \/ fj_on_closing

(* ---------------------- AdvancedJammerSimulator ----------------------- *)

Workers == 1..MaxWorkers

\* the name of worker thread w, as the holder of the lock
Thread(w) == <<"worker", w>>

Clip(x, lo, hi) == IF x < lo THEN lo ELSE IF x > hi THEN hi ELSE x

\* np.mean(jammer ** 2) of the waveform _generate_signal builds
\* (jammer+prevention.py:135-143)
AjJammerPower(kind, strength, noise) ==
    LET s2 == (strength * strength) \div 1000 IN
    CASE kind = "Noise" -> s2 * noise
      [] kind = "Tone" -> s2 * 500
      [] kind = "Pulsed" -> s2 * 80
      [] kind = "Sweep" -> s2 * 500

\* snr = np.mean(signal ** 2) / (np.mean(jammer ** 2) + 1e-6); snr / 10, in hundredths
\* (jammer+prevention.py:171)
AjSnrOverTen(jam) == (10 * SignalPower) \div (jam + Epsilon)

\* AjSuccessRate without np.clip
AjSuccessRateUnclipped(jam) == AjSnrOverTen(jam)

\* success_rate = 100 * np.clip(snr / 10, 0, 1)   (jammer+prevention.py:172)
AjSuccessRate(jam) == Clip(AjSnrOverTen(jam), 0, 100)

\* [ch for ch in range(1, 12) if ch != self.channel]   (jammer+prevention.py:228)
AjHopCandidates(ch) == {c \in available_channels : c # ch}

\* AjDecay with a factor of 1.3
AjDecayGrowing(strength) == (strength * 13) \div 10

\* AjDecay with a factor of 0.5
AjDecayHalf(strength) == (strength * 5) \div 10

\* self.jammer_strength *= 0.7   (jammer+prevention.py:237)
AjDecay(strength) == (strength * 7) \div 10

\* ttk.Scale keeps a value that is set within from_..to   (jammer+prevention.py:55)
AjScaleValue(v) == Clip(v, AjSliderMin, AjSliderMax)

AjNoLocals == [kind |-> "", jam |-> 0, rate |-> 0, time |-> 0,
               mode |-> "", modes |-> {}, applies |-> 0]

\* aj_decays once the strength no longer derives from the initial one alone
NoDecays == -1

\* __init__   (jammer+prevention.py:12-33)
AjConstructed ==
    /\ aj_running = FALSE
    /\ aj_lock = <<"free">>
    /\ aj_success_times = <<>>
    /\ aj_success_rates = <<>>
    /\ aj_start_time = 0
    /\ aj_channel = 6
    /\ aj_fc = 50
    /\ aj_jammer_strength = AjInitialStrength
    /\ aj_jammer_type = "Noise"
    /\ aj_prev_method = "Channel Hopping"
    /\ aj_now = 0
    /\ aj_main = "idle"
    /\ aj_pc = [w \in Workers |-> "unborn"]
    /\ aj_local = [w \in Workers |-> AjNoLocals]
    /\ aj_ticks = 0
    /\ aj_cmds = 0
    /\ aj_old_channel = 0
    /\ aj_stop_seen = {}
    /\ aj_applies = 0
    /\ aj_decays = 0
    /\ aj_failed = {}

\* A long run: Start Simulation at time 0, then AjLongRunLen ticks of one worker
\* with the settings of __init__ (tick i reads the clock at 1 + 6 (i - 1)).
AjLongRunLen == HistoryCapacity - 1
AjLongRunTime(i) == 1 + (AjSleepTime + 1) * (i - 1)
AjLongRunRate == AjSuccessRate(AjJammerPower("Noise", AjInitialStrength, 1100))
AjLongRun ==
    /\ aj_running = TRUE
    /\ aj_lock = <<"free">>
    /\ aj_success_times = [i \in 1..AjLongRunLen |-> AjLongRunTime(i)]
    /\ aj_success_rates = [i \in 1..AjLongRunLen |-> AjLongRunRate]
    /\ aj_start_time = 0
    /\ aj_channel = 6
    /\ aj_fc = 50
    /\ aj_jammer_strength = AjInitialStrength
    /\ aj_jammer_type = "Noise"
    /\ aj_prev_method = "Channel Hopping"
    /\ aj_now = AjLongRunTime(AjLongRunLen + 1)
    /\ aj_main = "idle"
    /\ aj_pc = [w \in Workers |-> IF w = 1 THEN "loop" ELSE "unborn"]
    /\ aj_local = [w \in Workers |->
                     IF w = 1
                     THEN [kind |-> "Noise",
                           jam |-> AjJammerPower("Noise", AjInitialStrength, 1100),
                           rate |-> AjLongRunRate,
                           time |-> AjLongRunTime(AjLongRunLen),
                           mode |-> "Noise", modes |-> {"Noise"}, applies |-> 0]
                     ELSE AjNoLocals]
    /\ aj_ticks = 0
    /\ aj_cmds = 0
    /\ aj_old_channel = 0
    /\ aj_stop_seen = {}
    /\ aj_applies = 0
    /\ aj_decays = 0
    /\ aj_failed = {}

\* The window after the user has picked Adaptive Filter and clicked Apply
\* Prevention once; the simulation has not been started.
AjFiltered ==
    /\ aj_running = FALSE
    /\ aj_lock = <<"free">>
    /\ aj_success_times = <<>>
    /\ aj_success_rates = <<>>
    /\ aj_start_time = 0
    /\ aj_channel = 6
    /\ aj_fc = 50
    /\ aj_jammer_strength = AjScaleValue(AjDecay(AjInitialStrength))
    /\ aj_jammer_type = "Noise"
    /\ aj_prev_method = "Adaptive Filter"
    /\ aj_now = 0
    /\ aj_main = "idle"
    /\ aj_pc = [w \in Workers |-> "unborn"]
    /\ aj_local = [w \in Workers |-> AjNoLocals]
    /\ aj_ticks = 0
    /\ aj_cmds = 0
    /\ aj_old_channel = 0
    /\ aj_stop_seen = {}
    /\ aj_applies = 1
    /\ aj_decays = 1
    /\ aj_failed = {}

AjInit == AjConstructed \/ AjFiltered \/ AjLongRun

\* a worker is alive from Thread.start() until _run_simulation returns
AjAlive(w) == aj_pc[w] \notin {"unborn", "done"}

\* a worker is inside the body of the while loop
AjInTick(w) == aj_pc[w] \notin {"unborn", "loop", "done"}

\* ---- the main thread: the handlers of the widgets ----

\* if not self.running: self.running = True   (jammer+prevention.py:147-150)
start_simulation ==
    /\ aj_main = "idle"
    /\ aj_cmds < MaxCmdsA
    /\ \E w \in Workers : aj_pc[w] = "unborn"
    /\ ~aj_running
    /\ aj_running' = TRUE
    /\ aj_main' = "start_times"
    /\ aj_cmds' = aj_cmds + 1
    /\ UNCHANGED <<ajConfig, ajHistory, aj_start_time, aj_stop_seen, aj_lock, aj_now,
                   aj_pc, aj_local, aj_ticks, ajGhost>>

\* self.success_times = []   (jammer+prevention.py:151)
start_simulation_times ==
    /\ aj_main = "start_times"
    /\ aj_success_times' = <<>>
    /\ aj_main' = "start_rates"
    /\ UNCHANGED <<ajConfig, aj_success_rates, aj_running, aj_start_time, aj_cmds,
                   aj_stop_seen, aj_lock, aj_now, aj_pc, aj_local, aj_ticks, ajGhost>>

\* self.success_rates = []   (jammer+prevention.py:152)
start_simulation_rates ==
    /\ aj_main = "start_rates"
    /\ aj_success_rates' = <<>>
    /\ aj_main' = "start_clock"
    /\ UNCHANGED <<ajConfig, aj_success_times, aj_running, aj_start_time, aj_cmds,
                   aj_stop_seen, aj_lock, aj_now, aj_pc, aj_local, aj_ticks, ajGhost>>

\* self.start_time = time.time()   (jammer+prevention.py:153)
start_simulation_clock ==
    /\ aj_main = "start_clock"
    /\ aj_start_time' = aj_now
    /\ aj_now' = aj_now + 1
    /\ aj_main' = "start_thread"
    /\ UNCHANGED <<ajConfig, ajHistory, aj_running, aj_cmds, aj_stop_seen, aj_lock,
                   aj_pc, aj_local, aj_ticks, ajGhost>>

\* Thread(target=self._run_simulation, daemon=True).start()   (jammer+prevention.py:154)
start_simulation_thread ==
    /\ aj_main = "start_thread"
    /\ LET w == CHOOSE v \in Workers :
                   aj_pc[v] = "unborn" /\ \A u \in Workers : aj_pc[u] = "unborn" => v <= u
       IN aj_pc' = [aj_pc EXCEPT ![w] = "loop"]
    /\ aj_main' = "idle"
    /\ UNCHANGED <<ajConfig, ajHistory, aj_running, aj_start_time, aj_cmds,
                   aj_stop_seen, aj_lock, aj_now, aj_local, aj_ticks, ajGhost>>

\* stop_simulation: self.running = False   (jammer+prevention.py:156-158)
stop_simulation ==
    /\ aj_main = "idle"
    /\ aj_cmds < MaxCmdsA
    /\ aj_running' = FALSE
    /\ aj_stop_seen' = aj_stop_seen \cup {w \in Workers : AjAlive(w)}
    /\ aj_cmds' = aj_cmds + 1
    /\ UNCHANGED <<ajConfig, ajHistory, aj_start_time, aj_main, aj_lock, aj_now,
                   aj_pc, aj_local, aj_ticks, ajGhost>>

\* apply_prevention, the handler of the Apply Prevention button
\* (jammer+prevention.py:223-240)
apply_prevention ==
    /\ aj_main = "idle"
    /\ aj_cmds < MaxCmdsA
    /\ aj_cmds' = aj_cmds + 1
    /\ aj_applies' = aj_applies + 1
    /\ CASE aj_prev_method = "Channel Hopping" ->
              /\ \E new_channel \in AjHopCandidates(aj_channel) :
                    aj_channel' = new_channel
              /\ aj_old_channel' = aj_channel
              /\ UNCHANGED <<aj_fc, aj_jammer_strength, aj_decays>>
         [] aj_prev_method = "Spread Spectrum" ->
              /\ \E f \in AjFrequencies : aj_fc' = f
              /\ UNCHANGED <<aj_channel, aj_old_channel, aj_jammer_strength, aj_decays>>
         [] aj_prev_method = "Adaptive Filter" ->
              /\ aj_jammer_strength' = AjScaleValue(AjDecay(aj_jammer_strength))
              /\ aj_decays' = IF aj_decays = NoDecays THEN NoDecays ELSE aj_decays + 1
              /\ UNCHANGED <<aj_channel, aj_old_channel, aj_fc>>
    /\ UNCHANGED <<aj_jammer_type, aj_prev_method, ajHistory, aj_running,
                   aj_start_time, aj_main, aj_stop_seen, aj_lock, aj_now, aj_pc,
                   aj_local, aj_ticks, aj_failed>>

\* the slider's command, when the user drags the slider to another value:
\* setattr(self, 'jammer_strength', float(v))   (jammer+prevention.py:55-56)
aj_strength_slider ==
    /\ aj_main = "idle"
    /\ aj_cmds < MaxCmdsA
    /\ aj_cmds' = aj_cmds + 1
    /\ \E v \in AjSliderValues \ {aj_jammer_strength} :
          aj_jammer_strength' = AjScaleValue(v)
    /\ aj_decays' = NoDecays
    /\ UNCHANGED <<aj_channel, aj_fc, aj_jammer_type, aj_prev_method, aj_old_channel,
                   ajHistory, aj_running, aj_start_time, aj_main, aj_stop_seen,
                   aj_lock, aj_now, aj_pc, aj_local, aj_ticks, aj_applies, aj_failed>>

\* the user picks or types another jamming type   (jammer+prevention.py:49-52)
aj_jammer_type_menu ==
    /\ aj_main = "idle"
    /\ aj_cmds < MaxCmdsA
    /\ aj_cmds' = aj_cmds + 1
    /\ \E m \in AjTypeInputs \ {aj_jammer_type} : aj_jammer_type' = m
    /\ aj_local' = [w \in Workers |->
                       IF AjInTick(w)
                       THEN [aj_local[w] EXCEPT !.modes = @ \cup {aj_jammer_type'}]
                       ELSE aj_local[w]]
    /\ UNCHANGED <<aj_channel, aj_fc, aj_jammer_strength, aj_prev_method,
                   aj_old_channel, ajHistory, aj_running, aj_start_time, aj_main,
                   aj_stop_seen, aj_lock, aj_now, aj_pc, aj_ticks, ajGhost>>

\* the user picks another prevention method   (jammer+prevention.py:65-71)
aj_prev_method_button ==
    /\ aj_main = "idle"
    /\ aj_cmds < MaxCmdsA
    /\ aj_cmds' = aj_cmds + 1
    /\ \E m \in AjMethods \ {aj_prev_method} : aj_prev_method' = m
    /\ UNCHANGED <<aj_channel, aj_fc, aj_jammer_strength, aj_jammer_type,
                   aj_old_channel, ajHistory, aj_running, aj_start_time, aj_main,
                   aj_stop_seen, aj_lock, aj_now, aj_pc, aj_local, aj_ticks, ajGhost>>

\* ---- a worker thread: _run_simulation ----

\* while self.running: ... self.status_var.set("Simulation stopped")
\* (jammer+prevention.py:164, 197)
run_simulation_test(w) ==
    /\ aj_pc[w] = "loop"
    /\ IF aj_running
       THEN /\ aj_ticks < MaxTicksA
            /\ aj_ticks' = aj_ticks + 1
            /\ aj_pc' = [aj_pc EXCEPT ![w] = "gen_noise"]
            /\ aj_local' = [aj_local EXCEPT ![w].modes = {aj_jammer_type}]
       ELSE /\ aj_pc' = [aj_pc EXCEPT ![w] = "done"]
            /\ UNCHANGED <<aj_ticks, aj_local>>
    /\ UNCHANGED <<ajConfig, ajHistory, ajControl, aj_lock, aj_now, ajGhost>>

\* the waveform of one jamming type, at the strength read when it is built
AjWaveform(w, kind, noise) ==
    /\ aj_local' = [aj_local EXCEPT ![w].kind = kind,
                       ![w].jam = AjJammerPower(kind, aj_jammer_strength, noise),
                       ![w].mode = aj_jammer_type]
    /\ aj_pc' = [aj_pc EXCEPT ![w] = "metrics"]

\* if self.jammer_type_var.get() == "Noise":   (jammer+prevention.py:135-136)
generate_signal_noise(w) ==
    /\ aj_pc[w] = "gen_noise"
    /\ IF aj_jammer_type = "Noise"
       THEN \E noise \in NoiseFactors : AjWaveform(w, "Noise", noise)
       ELSE /\ aj_pc' = [aj_pc EXCEPT ![w] = "gen_tone"]
            /\ UNCHANGED aj_local
    /\ UNCHANGED <<ajConfig, ajHistory, ajControl, aj_lock, aj_now, aj_ticks, ajGhost>>

\* elif self.jammer_type_var.get() == "Tone":   (jammer+prevention.py:137-138)
generate_signal_tone(w) ==
    /\ aj_pc[w] = "gen_tone"
    /\ IF aj_jammer_type = "Tone"
       THEN AjWaveform(w, "Tone", 0)
       ELSE /\ aj_pc' = [aj_pc EXCEPT ![w] = "gen_pulsed"]
            /\ UNCHANGED aj_local
    /\ UNCHANGED <<ajConfig, ajHistory, ajControl, aj_lock, aj_now, aj_ticks, ajGhost>>

\* elif self.jammer_type_var.get() == "Pulsed": ... else:  # Sweep
\* (jammer+prevention.py:139-143)
generate_signal_pulsed(w) ==
    /\ aj_pc[w] = "gen_pulsed"
    /\ IF aj_jammer_type = "Pulsed"
       THEN AjWaveform(w, "Pulsed", 0)
       ELSE AjWaveform(w, "Sweep", 0)
    /\ UNCHANGED <<ajConfig, ajHistory, ajControl, aj_lock, aj_now, aj_ticks, ajGhost>>

\* snr, success_rate; current_time = time.time() - self.start_time
\* (jammer+prevention.py:168-173)
run_simulation_metrics(w) ==
    /\ aj_pc[w] = "metrics"
    /\ aj_local' = [aj_local EXCEPT ![w].rate = AjSuccessRate(aj_local[w].jam),
                                    ![w].time = aj_now - aj_start_time,
                                    ![w].applies = aj_applies]
    /\ aj_now' = aj_now + 1
    /\ aj_pc' = [aj_pc EXCEPT ![w] = "acquire"]
    /\ UNCHANGED <<ajConfig, ajHistory, ajControl, aj_lock, aj_ticks, ajGhost>>

\* with self.lock:   (jammer+prevention.py:176)
run_simulation_acquire(w) ==
    /\ aj_pc[w] = "acquire"
    /\ aj_lock = <<"free">>
    /\ aj_lock' = Thread(w)
    /\ aj_pc' = [aj_pc EXCEPT ![w] = "append_times"]
    /\ UNCHANGED <<ajConfig, ajHistory, ajControl, aj_now, aj_local, aj_ticks, ajGhost>>

\* self.success_times.append(current_time)   (jammer+prevention.py:177)
run_simulation_append_times(w) ==
    /\ aj_pc[w] = "append_times"
    /\ aj_success_times' = Append(aj_success_times, aj_local[w].time)
    /\ aj_pc' = [aj_pc EXCEPT ![w] = "append_rates"]
    /\ UNCHANGED <<ajConfig, aj_success_rates, ajControl, aj_lock, aj_now, aj_local,
                   aj_ticks, ajGhost>>

\* self.success_rates.append(success_rate)   (jammer+prevention.py:178)
run_simulation_append_rates(w) ==
    /\ aj_pc[w] = "append_rates"
    /\ aj_success_rates' = Append(aj_success_rates, aj_local[w].rate)
    /\ aj_pc' = [aj_pc EXCEPT ![w] = "trim"]
    /\ UNCHANGED <<ajConfig, aj_success_times, ajControl, aj_lock, aj_now, aj_local,
                   aj_ticks, ajGhost>>

\* if len(self.success_times) > 100:   (jammer+prevention.py:181)
AjOverCapacity(times) == Len(times) > HistoryCapacity

run_simulation_trim(w) ==
    /\ aj_pc[w] = "trim"
    /\ aj_pc' = [aj_pc EXCEPT ![w] =
                    IF AjOverCapacity(aj_success_times) THEN "pop_times" ELSE "release"]
    /\ UNCHANGED <<ajConfig, ajHistory, ajControl, aj_lock, aj_now, aj_local, aj_ticks,
                   ajGhost>>

\* list.pop(0)
Pop0(list) == Tail(list)

\* run_simulation_except with continue in place of break
run_simulation_except_retry(w) ==
    /\ aj_pc' = [aj_pc EXCEPT ![w] = "loop"]
    /\ aj_failed' = aj_failed \cup {w}

\* except Exception as e: self._log(...); break   (jammer+prevention.py:193-197)
run_simulation_except(w) ==
    /\ aj_pc' = [aj_pc EXCEPT ![w] = "done"]
    /\ aj_failed' = aj_failed \cup {w}

\* self.success_times.pop(0); on an empty list IndexError leaves the with block
\* (which releases the lock) and the loop   (jammer+prevention.py:182, 193-195)
run_simulation_pop_times(w) ==
    /\ aj_pc[w] = "pop_times"
    /\ IF aj_success_times # <<>>
       THEN /\ aj_success_times' = Pop0(aj_success_times)
            /\ aj_pc' = [aj_pc EXCEPT ![w] = "pop_rates"]
            /\ UNCHANGED <<aj_lock, aj_failed>>
       ELSE /\ run_simulation_except(w)
            /\ aj_lock' = <<"free">>
            /\ UNCHANGED aj_success_times
    /\ UNCHANGED <<ajConfig, aj_success_rates, ajControl, aj_now, aj_local, aj_ticks,
                   aj_applies, aj_decays>>

\* self.success_rates.pop(0)   (jammer+prevention.py:183, 193-195)
run_simulation_pop_rates(w) ==
    /\ aj_pc[w] = "pop_rates"
    /\ IF aj_success_rates # <<>>
       THEN /\ aj_success_rates' = Pop0(aj_success_rates)
            /\ aj_pc' = [aj_pc EXCEPT ![w] = "release"]
            /\ UNCHANGED <<aj_lock, aj_failed>>
       ELSE /\ run_simulation_except(w)
            /\ aj_lock' = <<"free">>
            /\ UNCHANGED aj_success_rates
    /\ UNCHANGED <<ajConfig, aj_success_times, ajControl, aj_now, aj_local, aj_ticks,
                   aj_applies, aj_decays>>

\* run_simulation_release with the lock kept
run_simulation_release_kept(w) ==
    /\ aj_pc[w] = "release"
    /\ aj_pc' = [aj_pc EXCEPT ![w] = "plot_acquire"]
    /\ UNCHANGED <<ajConfig, ajHistory, ajControl, aj_lock, aj_now, aj_local, aj_ticks,
                   ajGhost>>

\* the end of the with block   (jammer+prevention.py:183)
run_simulation_release(w) ==
    /\ aj_pc[w] = "release"
    /\ aj_lock' = <<"free">>
    /\ aj_pc' = [aj_pc EXCEPT ![w] = "plot_acquire"]
    /\ UNCHANGED <<ajConfig, ajHistory, ajControl, aj_now, aj_local, aj_ticks, ajGhost>>

\* _update_plots: with self.lock:   (jammer+prevention.py:186, 215)
update_plots_acquire(w) ==
    /\ aj_pc[w] = "plot_acquire"
    /\ aj_lock = <<"free">>
    /\ aj_lock' = Thread(w)
    /\ aj_pc' = [aj_pc EXCEPT ![w] = "plot_release"]
    /\ UNCHANGED <<ajConfig, ajHistory, ajControl, aj_now, aj_local, aj_ticks, ajGhost>>

\* set_data(self.success_times, self.success_rates), the end of the with block,
\* relim(): sequences of different lengths raise ValueError, which leaves the loop
\* (jammer+prevention.py:216-221, 193-195)
update_plots_release(w) ==
    /\ aj_pc[w] = "plot_release"
    /\ aj_lock' = <<"free">>
    /\ IF Len(aj_success_times) = Len(aj_success_rates)
       THEN /\ aj_pc' = [aj_pc EXCEPT ![w] = "sleep"]
            /\ UNCHANGED aj_failed
       ELSE run_simulation_except(w)
    /\ UNCHANGED <<ajConfig, ajHistory, ajControl, aj_now, aj_local, aj_ticks,
                   aj_applies, aj_decays>>

\* self._log(...); time.sleep(0.5)   (jammer+prevention.py:189-191)
run_simulation_sleep(w) ==
    /\ aj_pc[w] = "sleep"
    /\ aj_now' = aj_now + AjSleepTime
    /\ aj_pc' = [aj_pc EXCEPT ![w] = "loop"]
    /\ UNCHANGED <<ajConfig, ajHistory, ajControl, aj_lock, aj_local, aj_ticks, ajGhost>>

NextA ==
    \/ start_simulation
    \/ start_simulation_times
    \/ start_simulation_rates
    \/ start_simulation_clock
    \/ start_simulation_thread
    \/ stop_simulation
    \/ apply_prevention
    \/ aj_strength_slider
    \/ aj_jammer_type_menu
    \/ aj_prev_method_button
    \/ \E w \in Workers :
          \/ run_simulation_test(w)
          \/ generate_signal_noise(w)
          \/ generate_signal_tone(w)
          \/ generate_signal_pulsed(w)
          \/ run_simulation_metrics(w)
          \/ run_simulation_acquire(w)
          \/ run_simulation_append_times(w)
          \/ run_simulation_append_rates(w)
          \/ run_simulation_trim(w)
          \/ run_simulation_pop_times(w)
          \/ run_simulation_pop_rates(w)
          \/ run_simulation_release(w)
          \/ update_plots_acquire(w)
          \/ update_plots_release(w)
          \/ run_simulation_sleep(w)

(* --------------------------- the programs ----------------------------- *)

\* One run launches one of the three programs; the others stay as constructed.
Init ==
    /\ program \in Programs
    /\ IF program = "jmch" THEN JwInit ELSE JwConstructed
    /\ IF program = "jammer" THEN FjInit ELSE FjConstructed
    /\ IF program = "jammer+prevention" THEN AjInit ELSE AjConstructed

Next ==
    \/ program = "jmch" /\ NextJ /\ UNCHANGED <<program, varsF, varsA>>
    \/ program = "jammer" /\ NextF /\ UNCHANGED <<program, varsJ, varsA>>
    \/ program = "jammer+prevention" /\ NextA /\ UNCHANGED <<program, varsJ, varsF>>

Spec == Init /\ [][Next]_vars

(* ------------------------------ claims -------------------------------- *)

\* a success rate kept as a fraction lies in [0, 100]
FractionInRange(rate) == rate[2] > 0 /\ 0 <= rate[1] /\ rate[1] <= 100 * rate[2]

StrictlyIncreasing(seq) == \A i \in 1..(Len(seq) - 1) : seq[i] < seq[i + 1]

\* positions of the simulate_packets thread inside check_for_jamming
JwEvaluating == {"eval", "hop", "hop_acquire", "hop_release", "reset"}

\* C1: when check_for_jamming is about to reset the counters, it has reported
\* Jamming Detected and hopped channel exactly once if 100*sent/(sent+blocked) is
\* below success_rate_threshold, and has reported Network Stable and left the
\* channel alone otherwise.
C1_MitigationIffBelowThreshold ==
    jw_pc = "reset" =>
        IF 100 * jw_sent < success_rate_threshold * (jw_sent + jw_blocked)
        THEN /\ jw_result_label = "Jamming Detected"
             /\ jw_hops = 1
             /\ jw_channel # jw_eval_channel
        ELSE /\ jw_result_label = "Network Stable"
             /\ jw_hops = 0
             /\ jw_channel = jw_eval_channel

\* an evaluation of a window of 6 sent and 4 blocked packets has hopped
C1_Witness ==
    /\ jw_pc = "reset"
    /\ jw_sent = 6
    /\ jw_blocked = 4
    /\ jw_hops = 1

\* C2: a channel hop never lands on the channel it leaves, and the channel of
\* either program is always one of 1..11.
C2_HopLeavesChannel ==
    /\ jw_channel \in 1..11
    /\ aj_channel \in 1..11
    /\ jw_hops > 0 => jw_channel # jw_eval_channel
    /\ aj_old_channel # 0 => aj_channel # aj_old_channel

\* prevention_action has hopped from channel 1 to channel 11
C2_Witness ==
    /\ jw_hops = 1
    /\ jw_eval_channel = 1
    /\ jw_channel = 11

\* C3: every success rate the three programs compute or keep in their history
\* lies in [0, 100].
C3_SuccessRateInRange ==
    /\ \A i \in DOMAIN jw_success_rate_data : FractionInRange(jw_success_rate_data[i])
    /\ FractionInRange(JwSuccessRate(jw_sent, jw_blocked))
    /\ \A i \in DOMAIN fj_success_data : FractionInRange(fj_success_data[i])
    /\ \A i \in DOMAIN aj_success_rates :
          0 <= aj_success_rates[i] /\ aj_success_rates[i] <= 100
    /\ \A w \in Workers : 0 <= aj_local[w].rate /\ aj_local[w].rate <= 100

\* a tick whose snr / 10 exceeds 1 has stored the clipped rate 100
C3_Witness ==
    \E w \in Workers :
        /\ aj_pc[w] = "trim"
        /\ AjSnrOverTen(aj_local[w].jam) > 100
        /\ aj_success_rates # <<>>
        /\ aj_success_rates[Len(aj_success_rates)] = 100

\* C4: a worker that was alive when stop was requested does not begin another
\* tick: from the loop test it can only return.
C4_WorkerExitsAfterStop ==
    [][/\ (jw_stop_seen /\ jw_pc = "loop") => jw_pc' \in {"loop", "done"}
       /\ \A w \in Workers :
             (w \in aj_stop_seen /\ aj_pc[w] = "loop") => aj_pc'[w] \in {"loop", "done"}
      ]_vars

\* C5: at most one thread is executing _run_simulation.
C5_SingleWorker == Cardinality({w \in Workers : AjAlive(w)}) <= 1

\* the shared simulation state of each program
JwShared == <<jw_sent, jw_blocked, jw_time_data, jw_success_rate_data, jw_channel,
              jw_jammer_strength, jw_jammer_active>>
FjShared == <<fj_sent, fj_blocked, fj_time_data, fj_success_data, fj_jamming_mode>>
AjShared == <<aj_success_times, aj_success_rates, aj_channel, aj_jammer_strength,
              aj_jammer_type>>

\* C6: a step that changes the shared simulation state is a step of a thread
\* that holds the lock (the main threads never take it).
C6_MutationsUnderLock ==
    [][/\ JwShared' # JwShared => (jw_lock = "worker" /\ jw_pc' # jw_pc)
       /\ FjShared' # FjShared => (fj_lock = "worker" /\ fj_pc' # fj_pc)
       /\ AjShared' # AjShared =>
             \E w \in Workers : aj_lock = Thread(w) /\ aj_pc'[w] # aj_pc[w]
      ]_vars

\* C7: the timestamps of every success-rate history are strictly increasing.
C7_TimestampsIncrease ==
    /\ StrictlyIncreasing(jw_time_data)
    /\ StrictlyIncreasing(fj_time_data)
    /\ StrictlyIncreasing(aj_success_times)

\* C8: outside the locked append-and-trim section the history of
\* AdvancedJammerSimulator holds at most 100 samples.
C8_HistoryWithinCapacity ==
    aj_lock = <<"free">> =>
        /\ Len(aj_success_times) <= HistoryCapacity
        /\ Len(aj_success_rates) <= HistoryCapacity

\* C9: the histories of JammerWithPreventionSimulator and FixedJammerSimulator
\* never hold more samples than the capacity.
C9_DiscreteHistoryBounded ==
    /\ Len(jw_time_data) <= HistoryCapacity
    /\ Len(jw_success_rate_data) <= HistoryCapacity
    /\ Len(fj_time_data) <= HistoryCapacity
    /\ Len(fj_success_data) <= HistoryCapacity

\* C10: whenever check_for_jamming returns to the loop, sent and blocked are zero.
C10_CountersResetAfterEvaluation ==
    [][(jw_pc \in JwEvaluating /\ jw_pc' = "loop") => (jw_sent' = 0 /\ jw_blocked' = 0)
      ]_vars

\* an evaluation that detected jamming has returned to the loop
C10_Witness ==
    /\ jw_pc = "loop"
    /\ jw_hops = 1
    /\ jw_result_label = "Jamming Detected"
    /\ jw_sent = 0
    /\ jw_blocked = 0

\* a success rate kept as a fraction equals 100
FractionIsFull(rate) == rate[2] > 0 /\ rate[1] = 100 * rate[2]

\* C11: as long as the jammer of JammerWithPreventionSimulator has never been
\* active, and as long as no mode but "None" has been selected in
\* FixedJammerSimulator, no packet is blocked, every success rate in the history
\* is 100, no jamming is reported, no hop is made and the channel is the initial 1.
C11_QuietWhileJammerInactive ==
    /\ ~jw_ever_active =>
          /\ jw_blocked = 0
          /\ ~jw_is_blocked
          /\ \A i \in DOMAIN jw_success_rate_data : FractionIsFull(jw_success_rate_data[i])
          /\ jw_result_label # "Jamming Detected"
          /\ jw_pc \notin {"hop", "hop_acquire", "hop_release"}
          /\ jw_hops = 0
          /\ jw_channel = 1
    /\ ~fj_ever_jamming =>
          /\ fj_blocked = 0
          /\ ~fj_is_blocked
          /\ \A i \in DOMAIN fj_success_data : FractionIsFull(fj_success_data[i])

\* a window of check_interval packets with the jammer never active has been
\* evaluated as Network Stable
C11_Witness ==
    /\ ~jw_ever_active
    /\ jw_pc = "reset"
    /\ jw_sent = check_interval
    /\ jw_result_label = "Network Stable"
    /\ Len(jw_success_rate_data) = check_interval

\* C12: when a worker of AdvancedJammerSimulator begins a tick and the success
\* rate of its previous tick was below the 70% threshold, apply_prevention has
\* been invoked since that rate was computed.
C12_MitigationBeforeNextTick ==
    \A w \in Workers :
        (/\ aj_pc[w] = "gen_noise"
         /\ aj_local[w].kind # ""
         /\ aj_local[w].rate < AjThreshold) => aj_applies > aj_local[w].applies

\* C13: the jammer strength of AdvancedJammerSimulator stays within the range of
\* its slider after every step, and an adaptive-filter action never raises it.
C13_DecayWithinBounds ==
    [][/\ AjSliderMin <= aj_jammer_strength' /\ aj_jammer_strength' <= AjSliderMax
       /\ (aj_applies' # aj_applies /\ aj_prev_method = "Adaptive Filter") =>
             aj_jammer_strength' <= aj_jammer_strength
      ]_vars

\* the slider has been dragged to its maximum and a second adaptive-filter
\* action has reduced the strength from there
C13_Witness ==
    /\ aj_applies = 2
    /\ aj_decays = NoDecays
    /\ aj_jammer_strength = AjDecay(AjSliderMax)

RECURSIVE Power(_, _)
Power(b, n) == IF n = 0 THEN 1 ELSE b * Power(b, n - 1)

\* C14: after n adaptive-filter actions with no slider command since __init__,
\* the jammer strength is 5.0 * 0.7^n (to within a thousandth).
C14_GeometricDecay ==
    aj_decays # NoDecays =>
        LET n == aj_decays
            d == aj_jammer_strength * Power(10, n) - AjInitialStrength * Power(7, n)
        IN  -Power(10, n) < d /\ d < Power(10, n)

\* three adaptive-filter actions have left the strength at 1.715
C14_Witness ==
    /\ aj_decays = 3
    /\ aj_jammer_strength = 1715

\* C15: a worker whose tick has raised an exception has left its loop for good:
\* the thread of simulate (jammer.py) or of _run_simulation (jammer+prevention.py)
\* has returned, so it neither retries the tick nor begins another.
C15_FailFast ==
    /\ fj_failed => fj_pc = "done"
    /\ \A w \in aj_failed : aj_pc[w] = "done"

\* a tick of _run_simulation has failed while the other worker is still running
C15_Witness ==
    \E w \in aj_failed : \E v \in Workers \ {w} : AjInTick(v)

\* the fraction rate equals 100 * sent / (sent + blocked), or 100 when no packet
\* has been counted
IsSuccessRateOf(rate, sent, blocked) ==
    /\ rate[2] > 0
    /\ IF sent + blocked > 0
       THEN rate[1] * (sent + blocked) = 100 * sent * rate[2]
       ELSE rate[1] = 100 * rate[2]

\* C16: the success rate check_for_jamming has computed, and the rate update_graph
\* (jmch.py) or simulate (jammer.py) has just appended to the history, equal
\* 100 * sent / (sent + blocked) of the counters since the last reset (100 when
\* both are zero), and no rate is ever formed with a zero denominator.
C16_DiscreteSuccessRate ==
    /\ jw_pc \in JwEvaluating \ {"eval"} =>
          IsSuccessRateOf(jw_eval_rate, jw_sent, jw_blocked)
    /\ (jw_pc = "check" /\ jw_sent + jw_blocked > 0) =>
          /\ jw_success_rate_data # <<>>
          /\ IsSuccessRateOf(jw_success_rate_data[Len(jw_success_rate_data)],
                             jw_sent, jw_blocked)
    /\ (fj_pc = "status" /\ fj_sent + fj_blocked > 0) =>
          /\ fj_success_data # <<>>
          /\ IsSuccessRateOf(fj_success_data[Len(fj_success_data)], fj_sent, fj_blocked)
    /\ \A i \in DOMAIN jw_success_rate_data : jw_success_rate_data[i][2] > 0
    /\ \A i \in DOMAIN fj_success_data : fj_success_data[i][2] > 0

\* check_for_jamming has computed 70 for a window of 7 sent and 3 blocked packets
C16_Witness ==
    /\ jw_pc = "reset"
    /\ jw_sent = 7
    /\ jw_blocked = 3
    /\ jw_eval_rate = <<700, 10>>

\* number of the three mitigation parameters a step changes
AjParametersChanged ==
    Cardinality({i \in 1..3 :
                   <<aj_channel, aj_fc, aj_jammer_strength>>[i] #
                   <<aj_channel', aj_fc', aj_jammer_strength'>>[i]})

\* C17: a call of apply_prevention changes exactly one of channel, fc and
\* jammer_strength, the one of the selected method, and spread spectrum sets fc
\* to one of 40, 45, 50, 55, 60.
C17_OneStrategyPerAction ==
    [][aj_applies' # aj_applies =>
          /\ AjParametersChanged = 1
          /\ aj_prev_method = "Channel Hopping" => aj_channel' # aj_channel
          /\ aj_prev_method = "Spread Spectrum" =>
                (aj_fc' # aj_fc /\ aj_fc' \in AjFrequencies)
          /\ aj_prev_method = "Adaptive Filter" =>
                aj_jammer_strength' # aj_jammer_strength
      ]_vars

\* C18: no program holds a strength outside the range of its slider, the mode of
\* FixedJammerSimulator is always one of its five modes, and every waveform of
\* AdvancedJammerSimulator was chosen by a branch test that read one of the four
\* jammer types.
C18_InvalidConfigurationRejected ==
    /\ jw_jammer_strength \in 10..90
    /\ aj_jammer_strength \in AjSliderMin..AjSliderMax
    /\ fj_jamming_mode \in FjModes
    /\ fj_mode \in FjModes
    /\ \A w \in Workers : aj_local[w].kind # "" => aj_local[w].mode \in AjTypes

\* C19: in JammerWithPreventionSimulator the counting step of a tick adds one to
\* exactly one of sent and blocked and no other step of the tick changes them,
\* check_for_jamming is entered exactly when sent + blocked is check_interval,
\* and sent + blocked never leaves 0..check_interval, whatever the main thread
\* does in between.
C19_WindowOfCheckInterval ==
    [][/\ jw_sent' + jw_blocked' \in 0..check_interval
       /\ jw_sent' >= 0 /\ jw_blocked' >= 0
       /\ (jw_pc = "count" /\ jw_pc' # jw_pc) =>
             \/ jw_sent' = jw_sent + 1 /\ jw_blocked' = jw_blocked
             \/ jw_sent' = jw_sent /\ jw_blocked' = jw_blocked + 1
       /\ (jw_pc \notin {"count", "reset"} \/ jw_pc' = jw_pc) =>
             (jw_sent' = jw_sent /\ jw_blocked' = jw_blocked)
       /\ (jw_pc = "check" /\ jw_pc' # jw_pc) =>
             (jw_pc' = "eval" <=> jw_sent + jw_blocked = check_interval)
       /\ jw_pc' \in JwEvaluating => jw_sent' + jw_blocked' = check_interval
      ]_vars

\* a window of check_interval packets during which the jammer was toggled and the
\* slider moved is being evaluated
C19_Witness ==
    /\ jw_pc = "eval"
    /\ jw_sent = 7
    /\ jw_blocked = 3
    /\ ~jw_jammer_active
    /\ jw_jammer_strength = 90

\* C20: at the end of a tick of AdvancedJammerSimulator during which only valid
\* jammer types were selected, the waveform synthesized in the tick is that of a
\* type that was selected at some moment of the tick; in FixedJammerSimulator a
\* packet is blocked only under a mode with a positive block probability and the
\* status shown after a tick is that of the mode the tick read.
C20_WaveformOfSelectedMode ==
    /\ \A w \in Workers :
          (aj_pc[w] = "sleep" /\ aj_local[w].modes \subseteq AjTypes) =>
              aj_local[w].kind \in aj_local[w].modes
    /\ (fj_pc \in {"acquire", "count"} /\ fj_is_blocked) => FjBlockProb(fj_mode) > 0
    /\ fj_pc = "loop" => fj_status_label = fj_mode

\* C21: whenever no thread holds the lock of AdvancedJammerSimulator,
\* success_times and success_rates have the same length.
C21_HistoriesOfEqualLength ==
    aj_lock = <<"free">> => Len(aj_success_times) = Len(aj_success_rates)

\* C22: whenever running is True and start_simulation is not in progress, a
\* thread of AdvancedJammerSimulator is executing _run_simulation.
C22_RunningMeansWorkerAlive ==
    (aj_running /\ aj_main = "idle") => \E w \in Workers : AjAlive(w)

\* positions of a thread inside a with self.lock block
JwLocked == {"count", "release", "hop_release"}
FjLocked == {"count", "release"}
AjLocked == {"append_times", "append_rates", "trim", "pop_times", "pop_rates",
             "release", "plot_release"}

\* C23: in each program the lock is held exactly while its holder is inside a
\* with self.lock block, whose statements never wait: a thread about to acquire
\* the lock does not hold it, and no thread holds it at the loop test, during a
\* sleep, or after the loop has ended (by a stop request or an exception).
C23_LockDiscipline ==
    /\ jw_lock = "worker" <=> jw_pc \in JwLocked
    /\ fj_lock = "worker" <=> fj_pc \in FjLocked
    /\ \A w \in Workers : aj_lock = Thread(w) <=> aj_pc[w] \in AjLocked
    /\ aj_lock \in {<<"free">>} \cup {Thread(w) : w \in Workers}

\* one worker of AdvancedJammerSimulator waits for the lock the other holds
C23_Witness ==
    \E w \in Workers : \E v \in Workers \ {w} :
        /\ aj_lock = Thread(w)
        /\ aj_pc[v] \in {"acquire", "plot_acquire"}

====
